---- MODULE Spec2Model ----
(***************************************************************************)
(* Model of PhishingDetector (src/phishing_detector.py): analyze_url, its  *)
(* four extractors, the classifier (remote attempt with rule-based         *)
(* fallback) and the risk level.                                           *)
(*                                                                         *)
(* Python floats are IEEE-754 binary64.  Every float the scorer can        *)
(* produce is a multiple of 2^-56 below 2^3, so a float is modelled as a   *)
(* sign and a magnitude counted in units of 2^-56, the magnitude split in  *)
(* two limbs (mag = hi * 2^28 + lo) so that no limb leaves 32 bits.        *)
(* Additions and products are rounded to 53 significant bits, ties to      *)
(* even, as the hardware does.                                             *)
(***************************************************************************)
EXTENDS Integers, Naturals, Sequences, FiniteSets, TLC

VARIABLES config, pc, url, features, ai_score, risk_level, calls, env

vars == <<config, pc, url, features, ai_score, risk_level, calls, env>>

----------------------------------------------------------------------------
(* binary64 arithmetic                                                      *)

Limb == 2^28

Flt(h, l) == [neg |-> FALSE, hi |-> h, lo |-> l]

FNeg(a) == [a EXCEPT !.neg = ~a.neg]

FIsZero(a) == a.hi = 0 /\ a.lo = 0

\* magnitude comparison
MagLt(a, b) == a.hi < b.hi \/ (a.hi = b.hi /\ a.lo < b.lo)

\* a < b on floats (there is no negative zero in the model: see FNorm)
FLt(a, b) ==
    IF a.neg /\ ~b.neg THEN TRUE
    ELSE IF ~a.neg /\ b.neg THEN FALSE
    ELSE IF a.neg THEN MagLt(b, a)
    ELSE MagLt(a, b)

FGt(a, b) == FLt(b, a)

\* the spacing of binary64 values around a magnitude, in units of 2^-56
Ulp(h) ==
    IF h >= 2^30 THEN 64
    ELSE IF h >= 2^29 THEN 32
    ELSE IF h >= 2^28 THEN 16
    ELSE IF h >= 2^27 THEN 8
    ELSE IF h >= 2^26 THEN 4
    ELSE IF h >= 2^25 THEN 2
    ELSE 1

\* round a magnitude to 53 significant bits, ties to even
FRound(a) ==
    LET u  == Ulp(a.hi)
        q  == a.lo \div u
        r  == a.lo % u
        up == (2 * r > u) \/ (2 * r = u /\ q % 2 = 1)
        l  == (IF up THEN q + 1 ELSE q) * u
    IN  IF l >= Limb THEN [a EXCEPT !.hi = a.hi + 1, !.lo = l - Limb]
        ELSE [a EXCEPT !.lo = l]

\* zero is always +0.0
FNorm(a) == IF FIsZero(a) THEN [a EXCEPT !.neg = FALSE] ELSE a

\* exact sum and difference of magnitudes
MagAdd(a, b) ==
    LET l == a.lo + b.lo
    IN  IF l >= Limb THEN [neg |-> FALSE, hi |-> a.hi + b.hi + 1, lo |-> l - Limb]
        ELSE [neg |-> FALSE, hi |-> a.hi + b.hi, lo |-> l]

\* a - b for magnitudes with b <= a
MagSub(a, b) ==
    IF a.lo >= b.lo THEN [neg |-> FALSE, hi |-> a.hi - b.hi, lo |-> a.lo - b.lo]
    ELSE [neg |-> FALSE, hi |-> a.hi - b.hi - 1, lo |-> a.lo + Limb - b.lo]

\* a + b, correctly rounded
FAdd(a, b) ==
    IF a.neg = b.neg
    THEN FNorm([FRound(MagAdd(a, b)) EXCEPT !.neg = a.neg])
    ELSE IF MagLt(a, b)
         THEN FNorm([FRound(MagSub(b, a)) EXCEPT !.neg = b.neg])
         ELSE FNorm([FRound(MagSub(a, b)) EXCEPT !.neg = a.neg])

FSub(a, b) == FAdd(a, FNeg(b))

RECURSIVE MagTimes(_, _)
\* exact product of a magnitude and a natural number
MagTimes(a, n) == IF n = 0 THEN Flt(0, 0) ELSE MagAdd(MagTimes(a, n - 1), a)

\* a * float(n) for a non-negative float a and a list length n, correctly rounded
FMulInt(a, n) == FNorm(FRound(MagTimes(a, n)))

\* Python's max(x, y): y if y > x else x; min(x, y): y if y < x else x
PyMax(x, y) == IF FGt(y, x) THEN y ELSE x

PyMin(x, y) == IF FLt(y, x) THEN y ELSE x

\* the float literals of the source (magnitude = literal * 2^56, exactly)
F0_0 == Flt(0, 0)

\* 0.1 = 7205759403792794 * 2^-56
F0_1 == Flt(26843545, 161061274)

\* 0.2 = 14411518807585588 * 2^-56
F0_2 == Flt(53687091, 53687092)

\* 0.3 = 21617278211378380 * 2^-56
F0_3 == Flt(80530636, 214748364)

\* 0.4 = 28823037615171176 * 2^-56
F0_4 == Flt(107374182, 107374184)

\* 0.5 = 2^55 * 2^-56
F0_5 == Flt(134217728, 0)

\* 0.7 = 50440315826549552 * 2^-56
F0_7 == Flt(187904819, 53687088)

\* 1.0 = 2^56 * 2^-56
F1_0 == Flt(268435456, 0)

----------------------------------------------------------------------------
(* Python str values are sequences of one-character strings                 *)

Digits == {"0", "1", "2", "3", "4", "5", "6", "7", "8", "9"}

LowerLetters ==
    {"a", "b", "c", "d", "e", "f", "g", "h", "i", "j", "k", "l", "m",
     "n", "o", "p", "q", "r", "s", "t", "u", "v", "w", "x", "y", "z"}

UpperToLower ==
    [c \in {"A", "B", "C", "D", "E", "F", "G", "H", "I", "J", "K", "L", "M",
            "N", "O", "P", "Q", "R", "S", "T", "U", "V", "W", "X", "Y", "Z"} |->
        CASE c = "A" -> "a" [] c = "B" -> "b" [] c = "C" -> "c" [] c = "D" -> "d"
          [] c = "E" -> "e" [] c = "F" -> "f" [] c = "G" -> "g" [] c = "H" -> "h"
          [] c = "I" -> "i" [] c = "J" -> "j" [] c = "K" -> "k" [] c = "L" -> "l"
          [] c = "M" -> "m" [] c = "N" -> "n" [] c = "O" -> "o" [] c = "P" -> "p"
          [] c = "Q" -> "q" [] c = "R" -> "r" [] c = "S" -> "s" [] c = "T" -> "t"
          [] c = "U" -> "u" [] c = "V" -> "v" [] c = "W" -> "w" [] c = "X" -> "x"
          [] c = "Y" -> "y" [] c = "Z" -> "z"]

\* str.lower() on one character and on a string
LowerChar(c) == IF c \in DOMAIN UpperToLower THEN UpperToLower[c] ELSE c

Lower(s) == [i \in 1..Len(s) |-> LowerChar(s[i])]

IsAlpha(c) == LowerChar(c) \in LowerLetters

\* urllib.parse.scheme_chars
SchemeChars == LowerLetters \cup DOMAIN UpperToLower \cup Digits \cup {"+", "-", "."}

\* str.find(c) + 1: the 1-based position of the first c, 0 when there is none
Find(s, c) ==
    IF \E i \in 1..Len(s) : s[i] = c
    THEN CHOOSE i \in 1..Len(s) : s[i] = c /\ \A j \in 1..(i - 1) : s[j] # c
    ELSE 0

Contains(s, c) == \E i \in 1..Len(s) : s[i] = c

Drop(s, n) == SubSeq(s, n + 1, Len(s))

\* sub occurs in s starting at position i
OccursAt(s, sub, i) ==
    /\ i >= 1
    /\ i + Len(sub) - 1 <= Len(s)
    /\ \A k \in 1..Len(sub) : s[i + k - 1] = sub[k]

\* str.startswith
StartsWith(s, sub) == OccursAt(s, sub, 1)

RECURSIVE LStrip(_)
\* url.lstrip(_WHATWG_C0_CONTROL_OR_SPACE), for the control characters the
\* inputs can hold
LStrip(s) ==
    IF Len(s) > 0 /\ s[1] \in {" ", "\t", "\n", "\r"} THEN LStrip(Tail(s)) ELSE s

\* url.replace(b, "") for b in _UNSAFE_URL_BYTES_TO_REMOVE
RemoveUnsafe(s) == SelectSeq(s, LAMBDA c : c \notin {"\t", "\n", "\r"})

\* urlsplit's scheme step: the rest of the url after a valid "scheme:"
AfterScheme(s) ==
    LET i == Find(s, ":")
    IN  IF i > 1 /\ IsAlpha(s[1]) /\ \A k \in 1..(i - 1) : s[k] \in SchemeChars
        THEN Drop(s, i)
        ELSE s

\* _splitnetloc(url, 2): the text after "//" up to the first of "/", "?", "#"
SplitNetloc(s) ==
    LET rest  == Drop(s, 2)
        stops == {i \in 1..Len(rest) : rest[i] \in {"/", "?", "#"}}
        delim == IF stops = {} THEN Len(rest) + 1
                 ELSE CHOOSE i \in stops : \A j \in stops : i <= j
    IN  SubSeq(rest, 1, delim - 1)

\* urlparse(url): the possible outcomes, each either a raise (ValueError) or
\* the netloc.  A netloc holding both brackets is checked by the ipaddress
\* module, which can accept or reject it: both outcomes are kept.
UrlParse(u) ==
    LET s      == AfterScheme(RemoveUnsafe(LStrip(u)))
        netloc == IF StartsWith(s, <<"/", "/">>) THEN SplitNetloc(s) ELSE <<>>
        ok     == [raises |-> FALSE, netloc |-> netloc]
        bad    == [raises |-> TRUE, netloc |-> <<>>]
    IN  IF Contains(netloc, "[") # Contains(netloc, "]") THEN {bad}
        ELSE IF Contains(netloc, "[") THEN {ok, bad}
        ELSE {ok}

\* len(netloc.split('.'))
SplitDotCount(s) == Cardinality({i \in 1..Len(s) : s[i] = "."}) + 1

\* s[i..j] is a non-empty run of characters of the class cls
RunOf(s, i, j, cls) == i <= j /\ \A k \in i..j : s[k] \in cls

\* re.search(r'\d+\.\d+\.\d+\.\d+', s) for ASCII s: three dots with non-empty
\* digit runs around and between them
SearchDottedQuad(s) ==
    \E p1, p2, p3 \in 1..Len(s) :
        /\ p1 < p2 /\ p2 < p3
        /\ s[p1] = "." /\ s[p2] = "." /\ s[p3] = "."
        /\ p1 > 1 /\ s[p1 - 1] \in Digits
        /\ RunOf(s, p1 + 1, p2 - 1, Digits)
        /\ RunOf(s, p2 + 1, p3 - 1, Digits)
        /\ p3 < Len(s) /\ s[p3 + 1] \in Digits

\* re.search(r"[a-z]+-[a-z]+\.(tk|ml|ga|cf)", s, re.IGNORECASE)
SearchSuspiciousTld(s) ==
    LET t == Lower(s)
    IN  \E h, d \in 1..Len(t) :
            /\ h < d
            /\ t[h] = "-" /\ t[d] = "."
            /\ h > 1 /\ t[h - 1] \in LowerLetters
            /\ RunOf(t, h + 1, d - 1, LowerLetters)
            /\ \E tld \in {<<"t", "k">>, <<"m", "l">>, <<"g", "a">>, <<"c", "f">>} :
                   OccursAt(t, tld, d + 1)

\* re.search(first + ".*" + second, s, re.IGNORECASE): first, then second
\* later on the same line
SearchThen(s, first, second) ==
    LET t == Lower(s)
    IN  \E i, j \in 1..Len(t) :
            /\ OccursAt(t, first, i)
            /\ j >= i + Len(first)
            /\ OccursAt(t, second, j)
            /\ \A k \in (i + Len(first))..(j - 1) : t[k] # "\n"

\* the regular expressions of the default configuration
PatIp == "[0-9]+\\.[0-9]+\\.[0-9]+\\.[0-9]+"

PatTld == "[a-z]+-[a-z]+\\.(tk|ml|ga|cf)"

PatSecureLogin == "secure.*login"

PatVerifyAccount == "verify.*account"

\* bool(re.search(pattern, s, re.IGNORECASE)) for the patterns above
ReSearch(pattern, s) ==
    CASE pattern = PatIp -> SearchDottedQuad(s)
      [] pattern = PatTld -> SearchSuspiciousTld(s)
      [] pattern = PatSecureLogin ->
            SearchThen(s, <<"s", "e", "c", "u", "r", "e">>, <<"l", "o", "g", "i", "n">>)
      [] pattern = PatVerifyAccount ->
            SearchThen(s, <<"v", "e", "r", "i", "f", "y">>,
                          <<"a", "c", "c", "o", "u", "n", "t">>)

\* the URLs the model analyses
\* http://192.0.2.10/login  (an IP host)
UrlIpLogin ==
    <<"h", "t", "t", "p", ":", "/", "/", "1", "9", "2", ".", "0", ".", "2", ".", "1", "0", "/", "l", "o", "g", "i", "n">>

\* https://google.com  (src/main.py test URL, whitelisted by default)
UrlGoogle ==
    <<"h", "t", "t", "p", "s", ":", "/", "/", "g", "o", "o", "g", "l", "e", ".", "c", "o", "m">>

\* https://secure-login-amazon.tk/verify  (src/main.py test URL)
UrlAmazonTk ==
    <<"h", "t", "t", "p", "s", ":", "/", "/", "s", "e", "c", "u", "r", "e", "-", "l", "o", "g", "i", "n", "-", "a", "m", "a", "z", "o", "n", ".", "t", "k", "/", "v", "e", "r", "i", "f", "y">>

\* https://a.b.c.d.e.com/Secure-Login/verify-account  (four subdomain labels beyond the base domain, two patterns)
UrlDeep ==
    <<"h", "t", "t", "p", "s", ":", "/", "/", "a", ".", "b", ".", "c", ".", "d", ".", "e", ".", "c", "o", "m", "/", "S", "e", "c", "u", "r", "e", "-", "L", "o", "g", "i", "n", "/", "v", "e", "r", "i", "f", "y", "-", "a", "c", "c", "o", "u", "n", "t">>

\* not a url  (malformed: no scheme, no host)
UrlNoScheme ==
    <<"n", "o", "t", " ", "a", " ", "u", "r", "l">>

\* http://[  (malformed: unmatched bracket in the host)
UrlBracket ==
    <<"h", "t", "t", "p", ":", "/", "/", "[">>

\* http://192.0.2.10/secure-login.tk/verify-account  (an IP host, every default pattern matches)
UrlIpAll ==
    <<"h", "t", "t", "p", ":", "/", "/", "1", "9", "2", ".", "0", ".", "2", ".", "1", "0", "/", "s", "e", "c", "u", "r", "e", "-", "l", "o", "g", "i", "n", ".", "t", "k", "/", "v", "e", "r", "i", "f", "y", "-", "a", "c", "c", "o", "u", "n", "t">>

Urls == {UrlIpAll, UrlIpLogin, UrlGoogle, UrlAmazonTk, UrlDeep, UrlNoScheme, UrlBracket}

\* host names of the whitelists
HostGoogle == <<"g", "o", "o", "g", "l", "e", ".", "c", "o", "m">>

HostFacebook == <<"f", "a", "c", "e", "b", "o", "o", "k", ".", "c", "o", "m">>

HostAmazon == <<"a", "m", "a", "z", "o", "n", ".", "c", "o", "m">>

HostIp == <<"1", "9", "2", ".", "0", ".", "2", ".", "1", "0">>

\* link targets found in fetched pages
HrefExternal == <<"h", "t", "t", "p", ":", "/", "/", "e", "v", "i", "l", ".", "e", "x", "a", "m", "p", "l", "e", "/", "x">>

HrefSameHost == <<"h", "t", "t", "p", "s", ":", "/", "/", "g", "o", "o", "g", "l", "e", ".", "c", "o", "m", "/", "a", "b", "o", "u", "t">>

HrefRelative == <<"/", "a", "b", "o", "u", "t">>

HrefBracket == <<"h", "t", "t", "p", ":", "/", "/", "[", "/", "x">>

----------------------------------------------------------------------------
(* Python values and dicts                                                  *)

\* a value that is a float, or a value of another type (f is then unused)
PyFloat(x) == [type |-> "float", f |-> x]

PyStr == [type |-> "str", f |-> F0_0]

PyNone == [type |-> "NoneType", f |-> F0_0]

Unset == [type |-> "unset", f |-> F0_0]

\* dict.get(key, default)
Get(d, key, default) == IF key \in DOMAIN d THEN d[key] ELSE default

----------------------------------------------------------------------------
(* configuration                                                            *)

NoEndpoint == "None"

\* create_default_config
DefaultConfig ==
    [suspicious_patterns |-> <<PatIp, PatTld, PatSecureLogin, PatVerifyAccount>>,
     whitelist_domains   |-> <<HostGoogle, HostFacebook, HostAmazon>>,
     ai_model_endpoint   |-> "http://localhost:8000/predict"]

\* a configuration file written by an operator: the IP host is trusted and
\* the patterns are reordered
CustomConfig ==
    [suspicious_patterns |-> <<PatVerifyAccount, PatIp, PatTld, PatSecureLogin>>,
     whitelist_domains   |-> <<HostIp>>,
     ai_model_endpoint   |-> "http://classifier.internal/predict"]

\* a configuration file without "ai_model_endpoint": config.get gives None
NoEndpointConfig == [DefaultConfig EXCEPT !.ai_model_endpoint = NoEndpoint]

\* load_config: the file's content, or the default when there is no file
Configs == {DefaultConfig, CustomConfig, NoEndpointConfig}

----------------------------------------------------------------------------
(* what the network can answer                                              *)

NoOutcome == [kind |-> "none"]

\* TLS handshake: an error (timeout, refusal, untrusted chain), or a
\* verified certificate with its issuer and subject
SslOutcomes ==
    {[kind |-> "error", issuer |-> "", subject |-> ""]}
    \cup {[kind |-> "cert", issuer |-> i, subject |-> "CN=site"] :
            i \in {"CN=Authority", "CN=site"}}

\* the keyword list of analyze_content, in its order
SuspiciousKeywords ==
    <<"verify account", "suspended", "urgent action", "click here immediately",
      "limited time", "act now", "confirm identity", "update payment",
      "security alert">>

Repeat(x, n) == [i \in 1..n |-> x]

\* the number of links above which a page counts as link-heavy
ExternalLinksLimit == 10

\* page fetch: an error, or a page: the keywords its lower-cased text holds,
\* its forms (each the types of its inputs), the href of each of its links
BenignPage ==
    [kind |-> "page", text |-> {}, forms |-> <<>>,
     hrefs |-> <<HrefRelative, HrefSameHost>>, title |-> "Home", favicon |-> TRUE]

LoginPage ==
    [kind |-> "page", text |-> {"verify account", "suspended", "urgent action"},
     forms |-> <<<<"text", "password">>>>,
     hrefs |-> Repeat(HrefExternal, ExternalLinksLimit), title |-> "", favicon |-> FALSE]

KeywordPage ==
    [kind |-> "page",
     text |-> {"verify account", "suspended", "urgent action", "limited time",
               "act now", "confirm identity", "security alert"},
     forms |-> <<<<"text">>, <<>>>>,
     hrefs |-> <<>>, title |-> "Alert", favicon |-> FALSE]

LinkPage ==
    [kind |-> "page", text |-> {}, forms |-> <<>>,
     hrefs |-> Repeat(HrefExternal, ExternalLinksLimit + 1) \o <<HrefRelative>>,
     title |-> "Links", favicon |-> TRUE]

BrokenLinkPage ==
    [kind |-> "page", text |-> {"act now"}, forms |-> <<>>,
     hrefs |-> <<HrefExternal, HrefBracket>>, title |-> "", favicon |-> FALSE]

ContentOutcomes ==
    {[kind |-> "error", text |-> {}, forms |-> <<>>, hrefs |-> <<>>,
      title |-> "", favicon |-> FALSE],
     BenignPage, LoginPage, KeywordPage, LinkPage, BrokenLinkPage}

\* datetimes are counted in hours
HoursPerDay == 24

\* datetime.now()
Now == 1000 * HoursPerDay

\* the age in days below which a domain is new
NewDomainDays == 30

\* the longest list of creation dates a registry answers with
MaxDates == 2

\* creation dates: long ago, one hour short of the threshold, at the
\* threshold, ten days ago, five hours ahead of the local clock
CreationDates ==
    {Now - 400 * HoursPerDay,
     Now - NewDomainDays * HoursPerDay + 1,
     Now - NewDomainDays * HoursPerDay,
     Now - 10 * HoursPerDay,
     Now + 5}

RECURSIVE SeqsUpTo(_, _)
\* the sequences over S of length at most n
SeqsUpTo(S, n) ==
    IF n = 0 THEN {<<>>}
    ELSE LET shorter == SeqsUpTo(S, n - 1)
         IN  shorter \cup {Append(s, x) : s \in {t \in shorter : Len(t) = n - 1}, x \in S}

\* registration lookup: an error, or a record whose creation_date is None, a
\* datetime, a text the library could not parse, or a list of datetimes
WhoisOutcomes ==
    {[kind |-> k, dates |-> <<>>, registrar |-> "None"] : k \in {"error", "None", "str"}}
    \cup {[kind |-> "datetime", dates |-> <<d>>, registrar |-> "Registrar Inc"] :
            d \in CreationDates}
    \cup {[kind |-> "list", dates |-> ds, registrar |-> "Registrar Inc"] :
            ds \in SeqsUpTo(CreationDates, MaxDates)}

\* the float next above a positive float
FNextUp(a) == MagAdd(a, Flt(0, Ulp(a.hi)))

\* values a classifier service can put under "phishing_probability"
RemoteValues ==
    {PyFloat(x) : x \in {F0_0, F0_4, FNextUp(F0_4), F0_7, FNextUp(F0_7), F1_0,
                         FAdd(F1_0, F0_5), FNeg(F0_5)}}
    \cup {PyStr, PyNone}

\* the POST to the classifier: an exception (timeout, connection refused,
\* transport error, no usable endpoint), or a response with a status and a
\* body that is not JSON, a JSON list, or a JSON object with or without the
\* field
RemoteOutcomes(endpoint) ==
    IF endpoint = NoEndpoint
    THEN {[kind |-> "exception", status |-> 0, body |-> "", value |-> Unset]}
    ELSE {[kind |-> "exception", status |-> 0, body |-> "", value |-> Unset]}
         \cup {[kind |-> "response", status |-> s, body |-> b, value |-> Unset] :
                 s \in {200, 503}, b \in {"not_json", "json_list", "object_without_field"}}
         \cup {[kind |-> "response", status |-> 200, body |-> "object_with_field",
                value |-> v] : v \in RemoteValues}
         \cup {[kind |-> "response", status |-> 503, body |-> "object_with_field",
                value |-> PyFloat(F0_0)]}

----------------------------------------------------------------------------
(* the extractors                                                           *)

\* check_suspicious_patterns: every configured pattern that matches, in order
CheckSuspiciousPatterns(patterns, u) ==
    SelectSeq(patterns, LAMBDA p : ReSearch(p, u))

\* parsed_url.netloc in self.whitelist_domains
IsWhitelisted(whitelist, netloc) == \E i \in 1..Len(whitelist) : whitelist[i] = netloc

\* check_ssl_certificate
CheckSslCertificate(o) ==
    IF o.kind = "cert"
    THEN [valid |-> TRUE, issuer |-> o.issuer, subject |-> o.subject,
          expires |-> "notAfter", is_self_signed |-> (o.issuer = o.subject)]
    ELSE [valid |-> FALSE, error |-> "str(e)", is_self_signed |-> TRUE]

\* the netloc urlparse gives when it returns
Netloc(u) == (CHOOSE o \in UrlParse(u) : ~o.raises).netloc

\* the links analyze_content passes to urlparse
HttpLinks(page) == SelectSeq(page.hrefs, LAMBDA h : StartsWith(h, <<"h", "t", "t", "p">>))

\* analyze_content: the records it can return for an outcome of the fetch
AnalyzeContent(u, o) ==
    LET degraded == [error |-> "str(e)", analyzed |-> FALSE]
        links    == HttpLinks(o)
        found    == SelectSeq(SuspiciousKeywords, LAMBDA kw : kw \in o.text)
        password == \E i \in 1..Len(o.forms) : \E j \in 1..Len(o.forms[i]) :
                        o.forms[i][j] = "password"
        external == SelectSeq(links, LAMBDA h : Netloc(h) # Netloc(u))
        mayRaise == \E i \in 1..Len(links) : \E p \in UrlParse(links[i]) : p.raises
        mayPass  == \A i \in 1..Len(links) : \E p \in UrlParse(links[i]) : ~p.raises
        record   == [suspicious_keywords  |-> found,
                     has_forms            |-> Len(o.forms) > 0,
                     has_password_field   |-> password,
                     form_count           |-> Len(o.forms),
                     external_links_count |-> Len(external),
                     title                |-> o.title,
                     has_favicon          |-> o.favicon]
    IN  IF o.kind = "error" THEN {degraded}
        ELSE (IF mayRaise THEN {degraded} ELSE {})
             \cup (IF mayPass THEN {record} ELSE {})

\* (datetime.now() - creation_date).days
DaysOld(creation) == (Now - creation) \div HoursPerDay

\* get_domain_info
GetDomainInfo(w) ==
    LET degraded == [error |-> "str(e)", is_new_domain |-> TRUE]
    IN  CASE w.kind = "error" -> degraded
          [] w.kind = "str" -> degraded
          [] w.kind = "list" /\ w.dates = <<>> -> degraded
          [] w.kind = "None" ->
                [creation_date |-> "None", days_old |-> 0,
                 registrar |-> w.registrar, is_new_domain |-> TRUE]
          [] OTHER ->
                LET creation_date == w.dates[1]
                    days_old      == DaysOld(creation_date)
                IN  [creation_date |-> creation_date, days_old |-> days_old,
                     registrar |-> w.registrar,
                     is_new_domain |-> days_old < NewDomainDays]

----------------------------------------------------------------------------
(* the classifier and the risk level                                        *)

\* "if cond: score += weight"
AddIf(cond, score, weight) == IF cond THEN FAdd(score, weight) ELSE score

\* rule_based_scoring before the final clamp
RawScore(f) ==
    LET ssl_info    == Get(f, "ssl_info", << >>)
        content     == Get(f, "content_analysis", << >>)
        domain_info == Get(f, "domain_info", << >>)
        patterns    == Len(f.suspicious_patterns)
        keywords    == Len(Get(content, "suspicious_keywords", << >>))
        s1  == AddIf(f.has_ip, F0_0, F0_3)
        s2  == AddIf(patterns > 0, s1, FMulInt(F0_2, patterns))
        s3  == AddIf(f.domain_length > 30, s2, F0_1)
        s4  == AddIf(f.subdomain_count > 3, s3, F0_2)
        s5  == AddIf(~Get(ssl_info, "valid", FALSE), s4, F0_3)
        s6  == AddIf(Get(ssl_info, "is_self_signed", FALSE), s5, F0_2)
        s7  == AddIf(keywords > 0, s6, FMulInt(F0_1, keywords))
        s8  == AddIf(Get(content, "has_password_field", FALSE), s7, F0_1)
        s9  == AddIf(Get(content, "external_links_count", 0) > ExternalLinksLimit, s8, F0_1)
        s10 == AddIf(Get(domain_info, "is_new_domain", FALSE), s9, F0_2)
    IN  IF f.is_whitelisted THEN FSub(s10, F0_5) ELSE s10

\* rule_based_scoring without the upper clamp
RuleBasedScoring_NoUpperClamp(f) == PyMax(F0_0, RawScore(f))

\* rule_based_scoring: min(1.0, max(0.0, score))
RuleBasedScoring(f) == PyMin(F1_0, PyMax(F0_0, RawScore(f)))

\* the try block of get_ai_prediction raises
RemoteRaises(o) == o.kind = "exception" \/ o.body \in {"not_json", "json_list"}

\* get_ai_prediction
GetAiPrediction(f, o) ==
    IF RemoteRaises(o) THEN PyFloat(RuleBasedScoring(f))
    ELSE IF o.body = "object_with_field" THEN o.value
    ELSE PyFloat(F0_0)

\* calculate_risk_level with the score tested before the whitelist
CalculateRiskLevel_ScoreFirst(f, score) ==
    IF score.type # "float" THEN [raises |-> TRUE, level |-> ""]
    ELSE IF FGt(score.f, F0_7) THEN [raises |-> FALSE, level |-> "HIGH"]
    ELSE IF FGt(score.f, F0_4) THEN [raises |-> FALSE, level |-> "MEDIUM"]
    ELSE [raises |-> FALSE, level |-> "LOW"]

\* calculate_risk_level with >= in place of >
CalculateRiskLevel_NonStrict(f, score) ==
    IF f.is_whitelisted THEN [raises |-> FALSE, level |-> "LOW"]
    ELSE IF score.type # "float" THEN [raises |-> TRUE, level |-> ""]
    ELSE IF ~FLt(score.f, F0_7) THEN [raises |-> FALSE, level |-> "HIGH"]
    ELSE IF ~FLt(score.f, F0_4) THEN [raises |-> FALSE, level |-> "MEDIUM"]
    ELSE [raises |-> FALSE, level |-> "LOW"]

\* calculate_risk_level: the label, or a TypeError from comparing a value
\* that is not a number
CalculateRiskLevel(f, score) ==
    IF f.is_whitelisted THEN [raises |-> FALSE, level |-> "LOW"]
    ELSE IF score.type # "float" THEN [raises |-> TRUE, level |-> ""]
    ELSE IF FGt(score.f, F0_7) THEN [raises |-> FALSE, level |-> "HIGH"]
    ELSE IF FGt(score.f, F0_4) THEN [raises |-> FALSE, level |-> "MEDIUM"]
    ELSE [raises |-> FALSE, level |-> "LOW"]

----------------------------------------------------------------------------
(* analyze_url, one step per call it makes                                  *)

NoEnv == [ssl |-> NoOutcome, content |-> NoOutcome, whois |-> NoOutcome,
          remote |-> NoOutcome]

Init ==
    /\ config \in Configs
    /\ pc = "idle"
    /\ url = <<>>
    /\ features = << >>
    /\ ai_score = Unset
    /\ risk_level = ""
    /\ calls = <<>>
    /\ env = NoEnv

\* analyze_url is called: urlparse, then the entries of the features dict that
\* need no call
AnalyzeUrl(u) ==
    /\ pc = "idle"
    /\ url' = u
    /\ \E p \in UrlParse(u) :
          IF p.raises
          THEN /\ pc' = "raised"
               /\ features' = << >>
          ELSE /\ pc' = "check_suspicious_patterns"
               /\ features' = [url |-> u, domain |-> p.netloc,
                               has_ip |-> SearchDottedQuad(p.netloc)]
    /\ ai_score' = Unset
    /\ risk_level' = ""
    /\ calls' = <<>>
    /\ env' = NoEnv
    /\ UNCHANGED config

StepCheckSuspiciousPatterns ==
    /\ pc = "check_suspicious_patterns"
    /\ features' =
          features @@
          [suspicious_patterns |-> CheckSuspiciousPatterns(config.suspicious_patterns, url),
           domain_length       |-> Len(features.domain),
           subdomain_count     |-> SplitDotCount(features.domain) - 2,
           is_whitelisted      |-> IsWhitelisted(config.whitelist_domains, features.domain)]
    /\ calls' = Append(calls, "check_suspicious_patterns")
    /\ pc' = "check_ssl_certificate"
    /\ UNCHANGED <<config, url, ai_score, risk_level, env>>

StepCheckSslCertificate ==
    /\ pc = "check_ssl_certificate"
    /\ \E o \in SslOutcomes :
          /\ features' = features @@ [ssl_info |-> CheckSslCertificate(o)]
          /\ env' = [env EXCEPT !.ssl = o]
    /\ calls' = Append(calls, "check_ssl_certificate")
    /\ pc' = "analyze_content"
    /\ UNCHANGED <<config, url, ai_score, risk_level>>

StepAnalyzeContent ==
    /\ pc = "analyze_content"
    /\ \E o \in ContentOutcomes :
          /\ \E r \in AnalyzeContent(url, o) :
                features' = features @@ [content_analysis |-> r]
          /\ env' = [env EXCEPT !.content = o]
    /\ calls' = Append(calls, "analyze_content")
    /\ pc' = "get_domain_info"
    /\ UNCHANGED <<config, url, ai_score, risk_level>>

StepGetDomainInfo ==
    /\ pc = "get_domain_info"
    /\ \E w \in WhoisOutcomes :
          /\ features' = features @@ [domain_info |-> GetDomainInfo(w)]
          /\ env' = [env EXCEPT !.whois = w]
    /\ calls' = Append(calls, "get_domain_info")
    /\ pc' = "get_ai_prediction"
    /\ UNCHANGED <<config, url, ai_score, risk_level>>

\* get_ai_prediction: the POST, and rule_based_scoring when the try block raised
StepGetAiPrediction ==
    /\ pc = "get_ai_prediction"
    /\ \E o \in RemoteOutcomes(config.ai_model_endpoint) :
          /\ ai_score' = GetAiPrediction(features, o)
          /\ env' = [env EXCEPT !.remote = o]
          /\ calls' = calls \o <<"get_ai_prediction", "requests.post">>
                            \o (IF RemoteRaises(o) THEN <<"rule_based_scoring">> ELSE <<>>)
    /\ pc' = "calculate_risk_level"
    /\ UNCHANGED <<config, url, features, risk_level>>

\* calculate_risk_level, then the result dict is returned, or the TypeError
\* leaves analyze_url
StepCalculateRiskLevel ==
    /\ pc = "calculate_risk_level"
    /\ LET r == CalculateRiskLevel(features, ai_score)
       IN  IF r.raises
           THEN pc' = "raised" /\ risk_level' = ""
           ELSE pc' = "done" /\ risk_level' = r.level
    /\ calls' = Append(calls, "calculate_risk_level")
    /\ UNCHANGED <<config, url, features, ai_score, env>>

\* the caller has the result (or the exception); the detector waits for the
\* next call
Return ==
    /\ pc \in {"done", "raised"}
    /\ pc' = "idle"
    /\ url' = <<>>
    /\ features' = << >>
    /\ ai_score' = Unset
    /\ risk_level' = ""
    /\ calls' = <<>>
    /\ env' = NoEnv
    /\ UNCHANGED config

Next ==
    \/ \E u \in Urls : AnalyzeUrl(u)
    \/ StepCheckSuspiciousPatterns
    \/ StepCheckSslCertificate
    \/ StepAnalyzeContent
    \/ StepGetDomainInfo
    \/ StepGetAiPrediction
    \/ StepCalculateRiskLevel
    \/ Return

Spec == Init /\ [][Next]_vars

----------------------------------------------------------------------------
(* properties                                                               *)

Returned == pc = "done"

\* get_ai_prediction has returned in the current call
Scored == pc \in {"calculate_risk_level", "done"} \/ (pc = "raised" /\ calls # <<>>)

\* C1: every returned result whose features say is_whitelisted has risk
\* level LOW, whatever the score and the other features are.
C1_WhitelistedIsLow ==
    (Returned /\ features.is_whitelisted) => risk_level = "LOW"

\* a whitelisted IP host matching every pattern, with a failed TLS check and
\* a new domain, scored 1.0 by the remote classifier, was returned
C1_Witness ==
    /\ Returned
    /\ features.is_whitelisted
    /\ features.has_ip
    /\ Len(features.suspicious_patterns) = Len(config.suspicious_patterns)
    /\ ~features.ssl_info.valid
    /\ features.domain_info.is_new_domain
    /\ env.remote.kind = "response"
    /\ ai_score = PyFloat(F1_0)

\* a value is a float within [0.0, 1.0]
InUnitInterval(v) == v.type = "float" /\ ~FLt(v.f, F0_0) /\ ~FGt(v.f, F1_0)

\* C2: the score of every returned result lies in [0.0, 1.0], whether it
\* comes from the remote classifier or from the rule-based fallback.
C2_ScoreInUnitInterval == Returned => InUnitInterval(ai_score)

\* the remote classifier is unavailable: the call failed, the status is not
\* 2xx, or the body has no phishing_probability field
Unavailable(o) ==
    \/ o.kind = "exception"
    \/ o.status \notin 200..299
    \/ o.body # "object_with_field"

\* C3: whenever the remote classifier is unavailable, get_ai_prediction
\* returns exactly what rule_based_scoring gives for the same features.
C3_FallbackWhenUnavailable ==
    (Scored /\ Unavailable(env.remote)) => ai_score = PyFloat(RuleBasedScoring(features))

\* C4: for a result that is not whitelisted the risk level is a step function
\* of the score alone with strict thresholds: above 0.7 HIGH, above 0.4 and
\* up to 0.7 MEDIUM, up to 0.4 LOW; 0.4 itself is LOW and 0.7 itself MEDIUM.
C4_StepFunction ==
    (Returned /\ ~features.is_whitelisted) =>
        /\ ai_score.type = "float"
        /\ FGt(ai_score.f, F0_7) => risk_level = "HIGH"
        /\ (FGt(ai_score.f, F0_4) /\ ~FGt(ai_score.f, F0_7)) => risk_level = "MEDIUM"
        /\ ~FGt(ai_score.f, F0_4) => risk_level = "LOW"
        /\ ai_score.f = F0_4 => risk_level = "LOW"
        /\ ai_score.f = F0_7 => risk_level = "MEDIUM"

\* a result with score exactly 0.7 for an IP host with a failed TLS check was
\* returned as MEDIUM
C4_Witness ==
    /\ Returned
    /\ ~features.is_whitelisted
    /\ features.has_ip
    /\ ~features.ssl_info.valid
    /\ ai_score = PyFloat(F0_7)
    /\ risk_level = "MEDIUM"

\* C5: analyze_url never raises to its caller, whatever the URL and whatever
\* the remote classifier answers.
C5_NeverRaises == pc # "raised"

\* the sub-record of each extractor is its degraded record when the extractor
\* failed, and what the extractor returned otherwise
SubRecordsAsSpecified ==
    /\ {"ssl_info", "content_analysis", "domain_info"} \subseteq DOMAIN features
    /\ IF env.ssl.kind = "error"
       THEN /\ "error" \in DOMAIN features.ssl_info
            /\ ~features.ssl_info.valid
            /\ features.ssl_info.is_self_signed
       ELSE features.ssl_info = CheckSslCertificate(env.ssl)
    /\ IF env.content.kind = "error"
       THEN /\ "error" \in DOMAIN features.content_analysis
            /\ ~features.content_analysis.analyzed
       ELSE features.content_analysis \in AnalyzeContent(url, env.content)
    /\ IF env.whois.kind = "error"
       THEN /\ "error" \in DOMAIN features.domain_info
            /\ features.domain_info.is_new_domain
       ELSE features.domain_info = GetDomainInfo(env.whois)

\* C6: whichever extractors fail in a call, the call still returns, and the
\* feature vector holds all three sub-records, degraded for the failed
\* extractors and unaffected for the others.
C6_ExtractorFailuresIsolated ==
    (pc \in {"done", "raised"} /\ env.ssl.kind # "none") =>
        (Returned /\ SubRecordsAsSpecified)

\* 0.8 and 1.2 as floats (57646075230342352 and 86469112845513520 times 2^-56)
F0_8 == Flt(214748364, 214748368)

F1_2 == Flt(322122547, 53687088)

\* the scenario: http://192.0.2.10/login under the default configuration,
\* every extractor failed, the classifier call failed
C7_Scenario ==
    /\ Returned
    /\ url = UrlIpLogin
    /\ config = DefaultConfig
    /\ env.ssl.kind = "error"
    /\ env.content.kind = "error"
    /\ env.whois.kind = "error"
    /\ env.remote.kind = "exception"

\* C7 as stated: the scenario gives raw score 0.8, final score 0.8 and HIGH.
C7_ScenarioScores08 ==
    C7_Scenario =>
        /\ RawScore(features) = F0_8
        /\ ai_score = PyFloat(F0_8)
        /\ risk_level = "HIGH"

\* C7 (amended): the scenario gives raw score 1.2 (IP host, one matched
\* pattern, invalid TLS, TLS assumed self-signed, new domain), final score
\* 1.0 and HIGH.
C7_ScenarioScores10 ==
    C7_Scenario =>
        /\ ~features.is_whitelisted
        /\ features.has_ip
        /\ features.suspicious_patterns = <<PatIp>>
        /\ ~features.ssl_info.valid
        /\ features.ssl_info.is_self_signed
        /\ features.domain_info.is_new_domain
        /\ RawScore(features) = F1_2
        /\ ai_score = PyFloat(F1_0)
        /\ risk_level = "HIGH"

C7_Witness == C7_Scenario /\ calls[Len(calls) - 1] = "rule_based_scoring"

\* the floats written k/10 for k in 0..10
Tenths ==
    [k \in 0..10 |->
        CASE k = 0 -> F0_0 [] k = 1 -> F0_1 [] k = 2 -> F0_2 [] k = 3 -> F0_3
          [] k = 4 -> F0_4 [] k = 5 -> F0_5 [] k = 6 -> Flt(161061273, 161061272)
          [] k = 7 -> F0_7 [] k = 8 -> F0_8 [] k = 9 -> Flt(241591910, 107374184)
          [] k = 10 -> F1_0]

\* the additive sum of the weights, in tenths
WeightSum(f) ==
    (IF f.has_ip THEN 3 ELSE 0)
    + 2 * Len(f.suspicious_patterns)
    + (IF f.domain_length > 30 THEN 1 ELSE 0)
    + (IF f.subdomain_count > 3 THEN 2 ELSE 0)
    + (IF ~f.ssl_info.valid THEN 3 ELSE 0)
    + (IF f.ssl_info.is_self_signed THEN 2 ELSE 0)
    + Len(Get(f.content_analysis, "suspicious_keywords", <<>>))
    + (IF Get(f.content_analysis, "has_password_field", FALSE) THEN 1 ELSE 0)
    + (IF Get(f.content_analysis, "external_links_count", 0) > 10 THEN 1 ELSE 0)
    + (IF f.domain_info.is_new_domain THEN 2 ELSE 0)
    - (IF f.is_whitelisted THEN 5 ELSE 0)

ClampTenths(k) == IF k < 0 THEN 0 ELSE IF k > 10 THEN 10 ELSE k

\* C8: rule_based_scoring returns the additive sum of the weights clamped to
\* [0, 1]; more than 3 subdomains with 2 matched patterns and all else benign
\* gives 0.6 and MEDIUM.
C8_ScoreIsClampedSum ==
    (Scored /\ RemoteRaises(env.remote)) =>
        /\ ai_score = PyFloat(Tenths[ClampTenths(WeightSum(features))])
        /\ (Returned /\ WeightSum(features) = 6 /\ features.subdomain_count > 3
              /\ Len(features.suspicious_patterns) = 2)
           => (ai_score = PyFloat(Tenths[6]) /\ risk_level = "MEDIUM")

\* the earliest of a non-empty list of dates
Earliest(ds) == CHOOSE d \in {ds[i] : i \in 1..Len(ds)} : \A i \in 1..Len(ds) : d <= ds[i]

\* C9: with several creation dates, days_old and is_new_domain come from the
\* earliest of them; without a creation date or on a failed lookup
\* is_new_domain is true; otherwise is_new_domain is days_old < 30.
C9_EarliestCreationDate ==
    ("domain_info" \in DOMAIN features) =>
        LET info == features.domain_info
            w    == env.whois
        IN  /\ (w.kind \in {"datetime", "list"} /\ w.dates # <<>>) =>
                  /\ info.days_old = DaysOld(Earliest(w.dates))
                  /\ info.is_new_domain = (info.days_old < 30)
            /\ (w.kind \in {"error", "None", "str"} \/ w.dates = <<>>) =>
                  info.is_new_domain

Count(log, name) == Cardinality({i \in 1..Len(log) : log[i] = name})

Position(log, name) == CHOOSE i \in 1..Len(log) : log[i] = name

Extractors ==
    {"check_suspicious_patterns", "check_ssl_certificate", "analyze_content",
     "get_domain_info"}

\* C10: in every call each extractor is invoked exactly once, the classifier
\* only after all of them, the remote classifier at most once and before the
\* rule-based scorer, which runs only if the remote attempt failed, and the
\* risk level last, from the score the classifier returned.
C10_CallOrder ==
    /\ \A e \in Extractors : Count(calls, e) <= 1
    /\ Count(calls, "requests.post") <= 1
    /\ Count(calls, "get_ai_prediction") = 1 =>
          \A e \in Extractors :
              Count(calls, e) = 1 /\ Position(calls, e) < Position(calls, "get_ai_prediction")
    /\ Count(calls, "rule_based_scoring") >= 1 =>
          /\ Count(calls, "rule_based_scoring") = 1
          /\ Count(calls, "requests.post") = 1
          /\ Position(calls, "requests.post") < Position(calls, "rule_based_scoring")
          /\ RemoteRaises(env.remote)
    /\ Count(calls, "calculate_risk_level") >= 1 =>
          /\ calls[Len(calls)] = "calculate_risk_level"
          /\ Count(calls, "calculate_risk_level") = 1
          /\ Count(calls, "get_ai_prediction") = 1
          /\ Returned => risk_level = CalculateRiskLevel(features, ai_score).level
    /\ pc \in {"done", "raised"} =>
          /\ \A e \in Extractors : Count(calls, e) = 1
          /\ Count(calls, "calculate_risk_level") = 1

====
